---- MODULE Spec2Model ----
(***************************************************************************)
(* One-way trading with an optional price prediction:                      *)
(* OneWayTradingAlgorithm (algorithms/one_way_trading.py).                 *)
(*                                                                         *)
(* Amounts of the resource are counted in units of 1/Scale, so the whole   *)
(* resource (1.0 in the code) is Scale and w ranges over 0..Scale.  Prices *)
(* are integers.  The arithmetic of the model is exact: the rounding of    *)
(* the float32 allocation array is not modelled.                           *)
(*                                                                         *)
(* OWTThresholdFunction and the predictor are not part of the sources at   *)
(* hand; they are modelled from their documented contract: a threshold is  *)
(* any table that is non-decreasing in w, takes its values in [L, U] and   *)
(* is U at w = 1; a predictor is a deterministic function of the history.  *)
(* scipy's fsolve is an external solver: its result is any value of        *)
(* SolverValues, reached with or without convergence.                      *)
(***************************************************************************)
EXTENDS Integers, Sequences, FiniteSets

\* ------------------------------------------------------------------ bounds

\* the resource 1.0, in units
Scale == 2
\* longest episode
MaxLen == 2
\* longest prediction history
MaxHist == 1

\* ThresholdParameters of the engine under study
L == 1
U == 3
\* lmbda is counted in tenths: LmbdaOne is the 1.0 of line 14
LmbdaOne == 10
LmbdaVals == {5, LmbdaOne}

\* prediction = None (no predictor)
NoPrediction == -1

Prices == 0..(U + 1)
SolverValues == (-1)..(Scale + 1)

Engines == {"e1", "e2"}
ListRefs == {"default"} \cup Engines

Min(a, b) == IF a <= b THEN a ELSE b
Max(a, b) == IF a >= b THEN a ELSE b

SeqsUpTo(S, n) == UNION {[1..k -> S] : k \in 0..n}

\* every price stream a caller may hand to allocate, malformed ones included
Instances == SeqsUpTo(Prices, MaxLen)

\* Precondition of an episode: non-empty, all prices positive
Valid(inst) == Len(inst) >= 1 /\ \A j \in 1..Len(inst) : inst[j] > 0

RECURSIVE SumSeq(_)
SumSeq(s) == IF s = <<>> THEN 0 ELSE s[1] + SumSeq(Tail(s))

\* ------------------------------------------------------- collaborators

\* OWTThresholdFunction(L, U, lmbda): the tables that meet its contract
ThresholdTables ==
    {t \in [0..Scale -> L..U] :
        /\ t[Scale] = U
        /\ \A a \in 0..Scale : \A b \in 0..Scale : a <= b => t[a] <= t[b]}

\* self.threshold(w, prediction)
Threshold(t, w, prediction) ==
    IF w >= Scale THEN U
    ELSE IF prediction = NoPrediction THEN t[Max(w, 0)]
    ELSE Min(U, Max(t[Max(w, 0)], prediction))

\* predictor.predict(seen_instances): deterministic in the history
Predict(history) ==
    IF history = <<>> THEN L
    ELSE LET ep == history[Len(history)] IN ep[Len(ep)]

\* ----------------------------------------------------------------- state

VARIABLES
    engines,     \* the OneWayTradingAlgorithm objects
    heap,        \* the list objects seen_instances may refer to
    pc,          \* position of the running allocate call
    self,        \* the engine allocate runs on
    instance,    \* its argument
    i,           \* number of steps of the loop that have run
    allocation,  \* the allocation array
    result,      \* the dictionary allocate returned
    err,         \* the exception the last operation raised
    w0,          \* self.w when allocate was called
    seen0,       \* the history when allocate was called
    preds,       \* the predictions the steps of this call used
    step,        \* the last step of the loop
    closeAdd,    \* what episode close added to the last index
    itState,     \* BTCDataIterator: none, new, iterating or stopped
    args,        \* the start_date and end_date it was constructed with
    start_date,  \* self.start_date
    end_date,    \* self.end_date
    curweek,     \* self.curweek
    nextweek,    \* self.nextweek
    window,      \* the bounds of the slice __next__ returned last
    prevFrom,    \* where the slice before that one began
    yielded      \* how many slices __next__ returned since __iter__

iterVars == <<itState, args, start_date, end_date, curweek, nextweek, window,
              prevFrom, yielded>>

engineVars == <<engines, heap, pc, self, instance, i, allocation, result,
                err, w0, seen0, preds, step, closeAdd>>

vars == <<engines, heap, pc, self, instance, i, allocation, result, err,
          w0, seen0, preds, step, closeAdd, itState, args, start_date,
          end_date, curweek, nextweek, window, prevFrom, yielded>>

callVars == <<pc, self, instance, i, allocation, result, w0, seen0, preds,
              step, closeAdd>>

NoEngine ==
    [state |-> "absent", lmbda |-> LmbdaOne, predictor |-> FALSE,
     seen |-> "default", w |-> 0, thr |-> [x \in 0..Scale |-> U],
     own |-> <<>>]

NoStep == [k |-> 0, w |-> 0, price |-> 0, r |-> 0, rfull |-> 0,
           branch |-> "none", sol |-> 0, converged |-> TRUE, x |-> 0]

NoResult == [allocation |-> <<>>, profit |-> 0]

\* a start_date or end_date argument: None, or a day.  Days are counted from
\* 2015-10-08, the START_DATE_2015 of the loader
NoDate == [none |-> TRUE, day |-> 0]
DateArg(d) == [none |-> FALSE, day |-> d]

NoWindow == [from |-> 0, to |-> 0]

\* no BTCDataIterator yet
NoIterator ==
    /\ itState = "none"
    /\ args = [start |-> NoDate, end |-> NoDate]
    /\ start_date = 0
    /\ end_date = 0
    /\ curweek = 0
    /\ nextweek = 0
    /\ window = NoWindow
    /\ prevFrom = 0
    /\ yielded = 0

Init ==
    /\ engines = [e \in Engines |-> NoEngine]
    /\ heap = [r \in ListRefs |-> <<>>]
    /\ pc = "idle"
    /\ self = "e1"
    /\ instance = <<>>
    /\ i = 0
    /\ allocation = <<>>
    /\ result = NoResult
    /\ err = "none"
    /\ w0 = 0
    /\ seen0 = <<>>
    /\ preds = {}
    /\ step = NoStep
    /\ closeAdd = 0
    /\ NoIterator

\* ----------------------------------------------------------- __init__

\* self.w = 0.0
InitialW == 0

\* the check of line 14 left out
ConfigErrorNever(lmbda, predictor) == FALSE

\* line 14: no predictor and lmbda < 1.0
ConfigError(lmbda, predictor) == ~predictor /\ lmbda < LmbdaOne

\* the seen_instances argument: left out (the default list object of the
\* function) or a list of the caller's
DefaultArg == [default |-> TRUE, value |-> <<>>]
ListArg(h) == [default |-> FALSE, value |-> h]

\* OneWayTradingAlgorithm(L, U, lmbda, seen_instances, predictor), bound to e
Construct(e, lmbda, predictor, seenArg, t) ==
    /\ pc = "idle"
    /\ engines[e].state # "made"
    /\ IF ConfigError(lmbda, predictor)
       THEN /\ engines' = [engines EXCEPT ![e] =
                    [NoEngine EXCEPT !.state = "failed", !.lmbda = lmbda,
                                     !.predictor = predictor]]
            /\ err' = "ValueError"
            /\ UNCHANGED heap
       ELSE LET ref == IF seenArg.default THEN "default" ELSE e
                h == IF seenArg.default THEN heap[ref] ELSE seenArg.value
            IN /\ heap' = [heap EXCEPT ![ref] = h]
               /\ engines' = [engines EXCEPT ![e] =
                    [state |-> "made", lmbda |-> lmbda,
                     predictor |-> predictor, seen |-> ref, w |-> InitialW,
                     thr |-> t, own |-> h]]
               /\ err' = "none"
    /\ UNCHANGED callVars
    /\ UNCHANGED iterVars

\* ----------------------------------------------------------- allocate

\* line 36: np.zeros(len(instance)), and the entry of the loop
Call(e, inst) ==
    /\ pc = "idle"
    /\ engines[e].state = "made"
    /\ self' = e
    /\ instance' = inst
    /\ allocation' = [j \in 1..Len(inst) |-> 0]
    /\ i' = 0
    /\ pc' = IF Len(inst) = 0 THEN "close" ELSE "loop"
    /\ result' = NoResult
    /\ err' = "none"
    /\ w0' = engines[e].w
    /\ seen0' = heap[engines[e].seen]
    /\ preds' = {}
    /\ step' = NoStep
    /\ closeAdd' = 0
    /\ UNCHANGED <<engines, heap>>
    /\ UNCHANGED iterVars

\* lines 46-61: which branch a step takes
Branch(price, r, rfull) ==
    IF price < r THEN "hold"
    ELSE IF price >= r /\ price < rfull THEN "solve"
    ELSE "full"

\* xn without "if xn < 0: xn = 0"
StepAllocationNoLowerClamp(w, price, r, rfull, sol) ==
    IF price < r THEN 0
    ELSE IF price >= r /\ price < rfull
    THEN IF sol > Scale - w THEN Scale - w ELSE sol
    ELSE Scale - w

\* xn without "if xn > 1 - self.w: xn = 1 - self.w"
StepAllocationNoUpperClamp(w, price, r, rfull, sol) ==
    IF price < r THEN 0
    ELSE IF price >= r /\ price < rfull
    THEN IF sol < 0 THEN 0 ELSE sol
    ELSE Scale - w

\* xn with "xn = 1" for "xn = 1 - self.w" in the last branch
StepAllocationFullIsOne(w, price, r, rfull, sol) ==
    IF price < r THEN 0
    ELSE IF price >= r /\ price < rfull
    THEN LET a == IF sol < 0 THEN 0 ELSE sol
         IN IF a > Scale - w THEN Scale - w ELSE a
    ELSE Scale

\* lines 46-61: xn
StepAllocation(w, price, r, rfull, sol) ==
    IF price < r THEN 0
    ELSE IF price >= r /\ price < rfull
    THEN LET a == IF sol < 0 THEN 0 ELSE sol
         IN IF a > Scale - w THEN Scale - w ELSE a
    ELSE Scale - w

\* a step that adds the prices seen so far to seen_instances
HistoryGrowsPerStep(h, inst, k) == Append(h, SubSeq(inst, 1, k))

\* what one step of allocate does to seen_instances: nothing
HistoryAfterStep(h, inst, k) == h

\* lines 38-67: one iteration of the loop; sol is what fsolve returns, and
\* converged whether it reached a root within its budget of evaluations
Step(sol, converged) ==
    /\ pc = "loop"
    /\ LET e == engines[self]
           k == i + 1
           prediction == IF e.predictor THEN Predict(heap[e.seen])
                         ELSE NoPrediction
           r == Threshold(e.thr, e.w, prediction)
           rfull == Threshold(e.thr, Scale, prediction)
           price == instance[k]
           b == Branch(price, r, rfull)
           x == StepAllocation(e.w, price, r, rfull, sol)
           w1 == e.w + x
       IN /\ allocation' = [allocation EXCEPT ![k] = x]
          /\ engines' = [engines EXCEPT ![self].w = w1]
          /\ i' = k
          /\ pc' = IF w1 >= Scale \/ k = Len(instance) THEN "close" ELSE "loop"
          /\ preds' = preds \cup {prediction}
          /\ step' = [k |-> k, w |-> e.w, price |-> price, r |-> r,
                      rfull |-> rfull, branch |-> b,
                      sol |-> IF b = "solve" THEN sol ELSE 0,
                      converged |-> IF b = "solve" THEN converged ELSE TRUE,
                      x |-> x]
          /\ heap' = [heap EXCEPT ![e.seen] = HistoryAfterStep(@, instance, k)]
    /\ UNCHANGED <<self, instance, result, err, w0, seen0, closeAdd>>
    /\ UNCHANGED iterVars

\* episode close without lines 70-71
CloseAllocationNoResidual(alloc, w) == alloc

\* lines 70-71: the rest of the resource goes to the last index
CloseAllocation(alloc, w) ==
    IF w <= Scale
    THEN [alloc EXCEPT ![Len(alloc)] = @ + (Scale - w)]
    ELSE alloc

RECURSIVE Dot(_, _)
Dot(p, a) == IF p = <<>> THEN 0 ELSE p[1] * a[1] + Dot(Tail(p), Tail(a))

\* line 75: np.sum(instance * allocation)
Profit(inst, alloc) == Dot(inst, alloc)

\* the profit taken before lines 70-71 ran
CloseResultStaleProfit(inst, alloc, w) ==
    [allocation |-> CloseAllocation(alloc, w), profit |-> Profit(inst, alloc)]

\* lines 70-77: the dictionary allocate returns
CloseResult(inst, alloc, w) ==
    LET a == CloseAllocation(alloc, w)
    IN [allocation |-> a, profit |-> Profit(inst, a)]

\* lines 68-77: episode close.  allocation[-1] of an empty array raises
Close ==
    /\ pc = "close"
    /\ LET w == engines[self].w
           n == Len(instance)
       IN IF n = 0 /\ w <= Scale
          THEN /\ pc' = "raised"
               /\ err' = "IndexError"
               /\ UNCHANGED <<allocation, result, closeAdd>>
          ELSE LET res == CloseResult(instance, allocation, w)
               IN /\ pc' = "returned"
                  /\ result' = res
                  /\ allocation' = res.allocation
                  /\ closeAdd' = IF n = 0 THEN 0
                                 ELSE res.allocation[n] - allocation[n]
                  /\ UNCHANGED err
    /\ UNCHANGED <<engines, heap, self, instance, i, w0, seen0, preds, step>>
    /\ UNCHANGED iterVars

\* ------------------------------------------------------------ the caller

ResetCall ==
    /\ pc' = "idle"
    /\ instance' = <<>>
    /\ i' = 0
    /\ allocation' = <<>>
    /\ result' = NoResult
    /\ err' = "none"
    /\ w0' = 0
    /\ seen0' = <<>>
    /\ preds' = {}
    /\ step' = NoStep
    /\ closeAdd' = 0
    /\ UNCHANGED self
    /\ UNCHANGED iterVars

\* the caller takes the result (or the exception) and goes on
Return ==
    /\ pc \in {"returned", "raised"}
    /\ ResetCall
    /\ UNCHANGED <<engines, heap>>

\* the caller adds the completed episode to the engine's history
RecordEpisode ==
    /\ pc = "returned"
    /\ Len(heap[engines[self].seen]) < MaxHist
    /\ heap' = [heap EXCEPT ![engines[self].seen] = Append(@, instance)]
    /\ engines' = [engines EXCEPT ![self].own = Append(@, instance)]
    /\ ResetCall

\* ------------------------------------------------------- specifications

\* one engine, every episode up to MaxLen
CoreSeenArgs == {DefaultArg, ListArg(<< <<U>> >>)}

Next ==
    \/ \E lmbda \in LmbdaVals, predictor \in BOOLEAN, s \in CoreSeenArgs,
          t \in ThresholdTables : Construct("e1", lmbda, predictor, s, t)
    \/ \E inst \in Instances : Call("e1", inst)
    \/ \E sol \in SolverValues, converged \in BOOLEAN : Step(sol, converged)
    \/ Close
    \/ Return

Spec == Init /\ [][Next]_vars

\* two engines with predictors, their histories growing across episodes
HistInstances == {<<L>>, <<L, U>>}
HistTable == [x \in 0..Scale |-> IF x = Scale THEN U ELSE L]
HistSeenArgs == {DefaultArg, ListArg(<<>>)}

NextHistory ==
    \/ \E e \in Engines, lmbda \in LmbdaVals, s \in HistSeenArgs :
          Construct(e, lmbda, TRUE, s, HistTable)
    \/ \E e \in Engines, inst \in HistInstances : Call(e, inst)
    \/ \E sol \in SolverValues, converged \in BOOLEAN : Step(sol, converged)
    \/ Close
    \/ Return
    \/ RecordEpisode

SpecHistory == Init /\ [][NextHistory]_vars

\* ------------------------------------------------------- BTCDataIterator
\* btc_data_loader.py.  A date is the number of days since 2015-10-08, so
\* timedelta(days = n) adds n; strptime and strftime with DT_FORMAT carry a
\* date at midnight to its day and back.

\* START_DATE_2015, END_DATE_2022: 2022-03-20 is 2355 days after 2015-10-08
StartDay2015 == 0
EndDay2022 == 2355
\* datetime.weekday() of 2015-10-08, a Thursday (Monday is 0)
StartWeekday2015 == 3

\* how far the start_date and end_date arguments of the model reach
MaxStartOffset == 8
MaxEndOffset == 30
EndSlack == 8

Weekday(d) == (d + StartWeekday2015) % 7

StartArgs ==
    {NoDate, DateArg(EndDay2022 - 7), DateArg(EndDay2022 + 2)}
        \cup {DateArg(d) :
                 d \in (StartDay2015 - 2)..(StartDay2015 + MaxStartOffset)}

EndArgs ==
    {NoDate}
        \cup {DateArg(d) :
                 d \in (StartDay2015 - 1)..(StartDay2015 + MaxEndOffset)}
        \cup {DateArg(d) : d \in (EndDay2022 - EndSlack)..(EndDay2022 + 2)}

\* lines 119-125: None stands for the first or the last day of the data
ParseDate(arg, dflt) == IF arg.none THEN dflt ELSE arg.day

\* lines 127-128
BoundStart(d) == IF d < StartDay2015 THEN StartDay2015 ELSE d

\* lines 129-130
BoundEnd(d) == IF d > EndDay2022 THEN EndDay2022 ELSE d

\* line 133 without its "% 7"
FirstMondayOffsetNoMod(d) == 7 - Weekday(d)

\* line 133: days = (7 - start_date.weekday()) % 7
FirstMondayOffset(d) == (7 - Weekday(d)) % 7

\* BTCDataIterator(df, start_date, end_date)
IterConstruct(sa, ea) ==
    /\ itState = "none"
    /\ LET s == BoundStart(ParseDate(sa, StartDay2015))
           e == BoundEnd(ParseDate(ea, EndDay2022))
       IN /\ start_date' = s + FirstMondayOffset(s)
          /\ end_date' = e
    /\ args' = [start |-> sa, end |-> ea]
    /\ itState' = "new"
    /\ UNCHANGED <<curweek, nextweek, window, prevFrom, yielded>>
    /\ UNCHANGED engineVars

\* __iter__
IterIter ==
    /\ itState # "none"
    /\ curweek' = start_date
    /\ nextweek' = start_date + 6
    /\ itState' = "iterating"
    /\ window' = NoWindow
    /\ prevFrom' = 0
    /\ yielded' = 0
    /\ UNCHANGED <<args, start_date, end_date>>
    /\ UNCHANGED engineVars

\* __next__: StopIteration, or the slice df.loc[curweek : nextweek], both
\* days included
IterNext ==
    /\ itState \in {"iterating", "stopped"}
    /\ IF nextweek > end_date
       THEN /\ itState' = "stopped"
            /\ UNCHANGED <<curweek, nextweek, window, prevFrom, yielded>>
       ELSE /\ window' = [from |-> curweek, to |-> nextweek]
            /\ prevFrom' = window.from
            /\ yielded' = yielded + 1
            /\ curweek' = curweek + 7
            /\ nextweek' = nextweek + 7
            /\ itState' = "iterating"
    /\ UNCHANGED <<args, start_date, end_date>>
    /\ UNCHANGED engineVars

NextIter ==
    \/ \E sa \in StartArgs, ea \in EndArgs : IterConstruct(sa, ea)
    \/ IterIter
    \/ IterNext

SpecIter == Init /\ [][NextIter]_vars

\* ----------------------------------------------------------------- claims

Active == pc \in {"loop", "close", "returned", "raised"}

\* the engine of the running call has no predictor and lmbda = 1
PureRobust == ~engines[self].predictor /\ engines[self].lmbda = LmbdaOne

RECURSIVE IndexSum(_, _, _)
IndexSum(p, a, n) == IF n = 0 THEN 0 ELSE p[n] * a[n] + IndexSum(p, a, n - 1)

\* C1: the allocation returned for a valid episode by an engine that started
\* at w = 0 sums to 1.0, however the loop ended; a single-element episode
\* gets the allocation [1.0].
C1_AllocationSumsToOne ==
    (pc = "returned" /\ w0 = 0 /\ Valid(instance)) =>
        /\ SumSeq(result.allocation) = Scale
        /\ Len(instance) = 1 => result.allocation = <<Scale>>

\* a single-element episode whose step took the root-finding branch and
\* allocated less than everything
C1_Witness ==
    /\ pc = "returned" /\ w0 = 0 /\ Valid(instance)
    /\ Len(instance) = 1
    /\ step.branch = "solve" /\ step.x < Scale
    /\ result.allocation = <<Scale>>

\* C2: in the allocation returned by an engine that started at w = 0 every
\* entry is >= 0, every entry after the step where w reached 1 is 0, and when
\* that step is not the last index episode close adds nothing.
C2_NonNegativeZeroAfterExhaustion ==
    (pc = "returned" /\ w0 = 0) =>
        /\ \A j \in 1..Len(instance) : result.allocation[j] >= 0
        /\ engines[self].w >= Scale =>
              \A j \in (i + 1)..Len(instance) : result.allocation[j] = 0
        /\ (engines[self].w >= Scale /\ i < Len(instance)) => closeAdd = 0

\* exhaustion at the first of two indices
C2_Witness ==
    /\ pc = "returned" /\ w0 = 0
    /\ engines[self].w >= Scale /\ i = 1 /\ Len(instance) = 2
    /\ result.allocation = <<Scale, 0>>

\* C3: the profit returned is the sum of price_i * allocation_i over the
\* returned allocation, the residual liquidated at episode close included.
C3_ProfitIsWeightedSum ==
    pc = "returned" =>
        result.profit = IndexSum(instance, result.allocation, Len(instance))

\* a step allocation at the first index and a residual at the last both count
C3_Witness ==
    /\ pc = "returned" /\ Len(instance) = 2
    /\ result.allocation[1] > 0 /\ closeAdd > 0
    /\ result.profit =
          instance[1] * result.allocation[1] + instance[2] * closeAdd

\* C4: construction with lmbda < 1.0 and no predictor fails with a
\* ValueError and makes no engine, so allocate never runs on such an engine;
\* every other construction succeeds with w = 0.
C4_ConfigErrorAtConstruction ==
    /\ [](\A e \in Engines :
            /\ engines[e].state = "failed" =>
                  (~engines[e].predictor /\ engines[e].lmbda < LmbdaOne)
            /\ engines[e].state = "made" =>
                  (engines[e].predictor \/ engines[e].lmbda = LmbdaOne))
    /\ [](Active => engines[self].state = "made")
    /\ [][\A e \in Engines :
            (engines[e].state # "made" /\ engines'[e] # engines[e]) =>
               IF ~engines'[e].predictor /\ engines'[e].lmbda < LmbdaOne
               THEN engines'[e].state = "failed" /\ err' = "ValueError"
               ELSE engines'[e].state = "made" /\ engines'[e].w = 0
                    /\ err' = "none"]_vars

\* a construction that failed
C4_Witness ==
    /\ engines["e1"].state = "failed"
    /\ err = "ValueError"
    /\ pc = "idle"

\* C5: a malformed episode (empty, or with a non-positive price) is rejected
\* before the loop and before any change of state: no step runs, w stays what
\* it was and nothing is returned.
C5_MalformedEpisodeRejected ==
    (Active /\ ~Valid(instance)) =>
        /\ pc # "returned"
        /\ i = 0
        /\ engines[self].w = w0

\* C6: no episode is processed starting from the w an earlier episode left,
\* and every schedule returned for a valid episode sums to 1.0.
C6_OneEpisodePerEngine ==
    /\ Active => w0 = 0
    /\ (pc = "returned" /\ Valid(instance)) =>
          SumSeq(result.allocation) = Scale

\* C7: the history of an engine constructed without a seen_instances argument
\* holds what was there at its construction and the episodes added through
\* that engine, nothing another engine added.
C7_HistoryNotShared ==
    \A e \in Engines :
        (engines[e].state = "made" /\ engines[e].seen = "default") =>
            heap[engines[e].seen] = engines[e].own

\* C8: within one allocate call the history handed to the predictor is the
\* one accumulated before the call, and every step uses the same prediction.
C8_HistoryFixedWithinCall ==
    (Active /\ engines[self].predictor) =>
        /\ heap[engines[self].seen] = seen0
        /\ preds \subseteq {Predict(seen0)}

\* two steps of one call, on a history that is not empty
C8_Witness ==
    /\ pc = "returned" /\ engines[self].predictor
    /\ i = 2 /\ seen0 # <<>>
    /\ preds = {Predict(seen0)}

\* C9: with lmbda = 1, no predictor and an engine that started at w = 0, the
\* profit of an episode with prices in [L, U] lies between its least and its
\* greatest price; and a step whose price is >= U takes the full-allocation
\* branch and brings w to 1.
C9_ProfitWithinPriceRange ==
    /\ (pc = "returned" /\ w0 = 0 /\ PureRobust
          /\ Len(instance) >= 1
          /\ \A j \in 1..Len(instance) : instance[j] \in L..U) =>
        /\ \E j \in 1..Len(instance) : instance[j] * Scale <= result.profit
        /\ \E j \in 1..Len(instance) : result.profit <= instance[j] * Scale
        /\ L * Scale <= result.profit /\ result.profit <= U * Scale
    /\ (Active /\ w0 = 0 /\ PureRobust
          /\ step.branch # "none" /\ step.price >= U) =>
        /\ step.branch = "full"
        /\ step.w + step.x = Scale
        /\ engines[self].w = Scale

\* Scenario A: the episode [L, U]
C9_Witness ==
    /\ pc = "returned" /\ w0 = 0 /\ PureRobust
    /\ instance = <<L, U>>
    /\ step.k = 2 /\ step.branch = "full" /\ step.w < Scale
    /\ engines[self].w = Scale

\* C10: the allocation x of a step at w is 0 when the price is below
\* reservation_price(w), 1 - w when it is at least reservation_price(1), and
\* otherwise the solver's value clamped into [0, 1 - w]; so 0 <= x <= 1 - w.
C10_StepAllocationRule ==
    step.branch # "none" =>
        /\ step.r = Threshold(engines[self].thr, step.w,
                IF engines[self].predictor THEN Predict(seen0)
                ELSE NoPrediction)
        /\ step.rfull = Threshold(engines[self].thr, Scale,
                IF engines[self].predictor THEN Predict(seen0)
                ELSE NoPrediction)
        /\ step.price < step.r => step.x = 0
        /\ step.price >= step.rfull => step.x = Scale - step.w
        /\ (step.price >= step.r /\ step.price < step.rfull) =>
              step.x = Min(Max(step.sol, 0), Scale - step.w)
        /\ 0 <= step.x /\ step.x <= Scale - step.w

\* a solver value above 1 - w, clamped
C10_Witness ==
    /\ step.branch = "solve"
    /\ step.w > 0
    /\ step.sol > Scale - step.w
    /\ step.x = Scale - step.w

\* C11: through an episode on an engine that started at w = 0, w is the
\* fraction converted so far: it never decreases, stays in [0, 1], equals the
\* sum of the allocation entries recorded so far after every step and after
\* episode close, and is 1 when allocate returns.
C11_WIsCumulativeAllocation ==
    (Active /\ w0 = 0 /\ Valid(instance)) =>
        /\ 0 <= engines[self].w /\ engines[self].w <= Scale
        /\ step.branch # "none" => step.w <= engines[self].w
        /\ pc \in {"loop", "close"} =>
              engines[self].w = SumSeq(allocation)
        /\ pc = "returned" =>
              /\ engines[self].w = SumSeq(result.allocation)
              /\ engines[self].w = Scale

\* C12: when the root-finder of the middle branch does not converge, the
\* step allocation is the boundary (0 or 1 - w) nearer to the value it
\* stopped at, never that value itself, and the allocation returned still
\* sums to 1.0.
C12_NonConvergenceFallsBack ==
    /\ (step.branch = "solve" /\ ~step.converged) =>
          /\ step.x \in {0, Scale - step.w}
          /\ step.x = IF 2 * step.sol <= Scale - step.w THEN 0
                      ELSE Scale - step.w
    /\ (pc = "returned" /\ w0 = 0 /\ Valid(instance)) =>
          SumSeq(result.allocation) = Scale

\* C13: with start_date and end_date clamped into [2015-10-08, 2022-03-20],
\* the first window starts on the first Monday at or after start_date, at
\* most 6 days later; every window is [curweek, curweek + 6]; successive
\* windows start 7 days apart; every window ends on or before end_date; and
\* StopIteration comes at the first window that would end after end_date.
C13_WeeklyWindows ==
    LET s == ParseDate(args.start, StartDay2015)
        e == ParseDate(args.end, EndDay2022)
        cs == Min(Max(s, StartDay2015), EndDay2022)
        ce == Max(Min(e, EndDay2022), StartDay2015)
    IN /\ yielded >= 1 =>
            /\ Weekday(window.from) = 0
            /\ window.to = window.from + 6
            /\ window.to <= ce
            /\ window.from - 7 * (yielded - 1) \in cs..(cs + 6)
            /\ curweek = window.from + 7
       /\ yielded >= 2 => window.from = prevFrom + 7
       /\ itState = "stopped" =>
            /\ nextweek = curweek + 6
            /\ nextweek > ce
            /\ yielded = 0 => curweek = start_date
       /\ (itState = "iterating" /\ yielded = 0) => curweek = start_date

\* iteration over 2015-10-07 .. 2015-10-29 ended after its two windows: the
\* start was raised to 2015-10-08 and the first window began on 2015-10-12
C13_Witness ==
    /\ itState = "stopped"
    /\ args = [start |-> DateArg(StartDay2015 - 1),
               end |-> DateArg(StartDay2015 + 21)]
    /\ yielded = 2
    /\ window = [from |-> StartDay2015 + 11, to |-> StartDay2015 + 17]
    /\ prevFrom = StartDay2015 + 4

====
